---------------------------- MODULE Spec2Model ----------------------------
(***************************************************************************)
(* Model of the in-memory database of src/main.py: the committed store     *)
(* (db, counts), the stack of open transactions, and the command           *)
(* dispatcher IMDB.transition driven by the loop of IMDB.run.              *)
(*                                                                         *)
(* Python values are modelled as follows.                                  *)
(*   dict            a function whose DOMAIN is the set of present keys    *)
(*   list            a sequence                                            *)
(*   ('SET', k, v)   the tuple <<"SET", k, v>>; ('DELETE', k) likewise     *)
(*   str | None      a sequence of length <= 1: <<>> is None, <<s>> is s   *)
(***************************************************************************)
EXTENDS Integers, Sequences, FiniteSets

\* ---------------------------------------------------------------- bounds
\* Tokens the user types as keys and as values.  "NULL" is an ordinary
\* token: nothing in the dispatcher forbids SET a NULL.
Keys == {"a", "b"}
Values == {"5", "NULL"}

\* size of the transaction stack, open logs plus pending events, beyond
\* which BEGIN, SET and DELETE are not offered
MaxStack == 4
\* total disagreement between counts and db beyond which a command that
\* would write the store is not offered
MaxDrift == 1

VARIABLES
  state,         \* IMDB.state: "None" until END sets it to "END"
  db,            \* IMDB.db: committed entries, key -> value
  transactions,  \* IMDB.transactions: open Transactions, innermost last
  counts,        \* IMDB.counts: value -> number of keys holding it
  command,       \* the command run() read last, as its tokens
  out,           \* what that command printed
  exc,           \* the exception that left run(), "" while there is none
  saved          \* history: the store and stack each open BEGIN found

vars == <<state, db, transactions, counts, command, out, exc, saved>>

\* ------------------------------------------------------- python helpers
None == <<>>
Some(s) == <<s>>

\* truthiness of a str | None
Truthy(x) == x # None /\ x[1] # ""

EmptyDict == [x \in {} |-> ""]
Put(d, k, v) == [x \in (DOMAIN d) \cup {k} |-> IF x = k THEN v ELSE d[x]]
Del(d, k) == [x \in (DOMAIN d) \ {k} |-> d[x]]

\* dict.get(key) with the default None
dict_get(d, k) == IF k \in DOMAIN d THEN Some(d[k]) ELSE None

\* what print() wrote for the last command, without the ">>> " prefix
Silent == [kind |-> "none", text |-> "", num |-> 0]
PrintedValue(s) == [kind |-> "value", text |-> s, num |-> 0]
PrintedCount(n) == [kind |-> "count", text |-> "", num |-> n]
PrintedError(s) == [kind |-> "error", text |-> s, num |-> 0]
PrintedBye == [kind |-> "bye", text |-> "Bye!", num |-> 0]

NotFound == "TRANSACTION NOT FOUND."

\* ------------------------------------------------------------ the store
\* IMDB.get
get(d, key) == IF key \in DOMAIN d THEN d[key] ELSE "NULL"

\* set without the decrement of the old value's count
set_keepsOldCount(d, c, key, value) ==
  LET old == dict_get(d, key)
      c2 == IF value \in DOMAIN c
              THEN [c EXCEPT ![value] = @ + 1]
              ELSE Put(c, value, 1)
  IN  IF Truthy(old) /\ old[1] \notin DOMAIN c
        THEN [db |-> d, counts |-> c, raised |-> "KeyError"]
        ELSE [db |-> Put(d, key, value), counts |-> c2, raised |-> ""]

\* IMDB.set.  The read of counts[db[key]] raises KeyError, before anything
\* is written, when the old value has no entry in counts.
set(d, c, key, value) ==
  LET old == dict_get(d, key)
      c1 == IF Truthy(old) THEN [c EXCEPT ![old[1]] = @ - 1] ELSE c
      c2 == IF value \in DOMAIN c1
              THEN [c1 EXCEPT ![value] = @ + 1]
              ELSE Put(c1, value, 1)
  IN  IF Truthy(old) /\ old[1] \notin DOMAIN c
        THEN [db |-> d, counts |-> c, raised |-> "KeyError"]
        ELSE [db |-> Put(d, key, value), counts |-> c2, raised |-> ""]

\* IMDB.delete
delete(d, c, key) ==
  LET value == dict_get(d, key)
      c1 == IF value # None /\ value[1] \in DOMAIN c
              THEN [c EXCEPT ![value[1]] = @ - 1]
              ELSE c
  IN  [db |-> IF key \in DOMAIN d THEN Del(d, key) ELSE d,
       counts |-> c1, raised |-> ""]

\* IMDB.count
count(c, value) == IF value \in DOMAIN c THEN c[value] ELSE 0

\* --------------------------------------------------------- transactions
\* Transaction.__init__, add_event, get_events
Transaction == <<>>
add_event(txn, event) == Append(txn, event)
get_events(txn) == txn

\* add_event on the outermost transaction instead of the latest
add_to_outermost(txns, event) ==
  [txns EXCEPT ![1] = add_event(txns[1], event)]

\* IMDB.latest_transaction, for a non-empty stack: the position of
\* transactions[-1]
latest_transaction(txns) == Len(txns)

\* the stack after self.latest_transaction().add_event(event)
add_to_latest(txns, event) ==
  [txns EXCEPT ![latest_transaction(txns)] = add_event(@, event)]

\* the inner loop of txn_get with a DELETE test that forgets the key
RECURSIVE txn_get_events_anyDelete(_, _, _)
txn_get_events_anyDelete(events, i, key) ==
  IF i = 0 THEN <<>>
  ELSE LET event == events[i]
       IN  IF event[1] = "DELETE" THEN <<None>>
           ELSE IF event[1] = "SET" /\ event[2] = key THEN <<Some(event[3])>>
           ELSE txn_get_events_anyDelete(events, i - 1, key)

\* inner loop of txn_get: events i, i-1, .., 1 of one transaction.
\* <<>> when the loop falls through, <<r>> when it returns r.
RECURSIVE txn_get_events(_, _, _)
txn_get_events(events, i, key) ==
  IF i = 0 THEN <<>>
  ELSE LET event == events[i]
       IN  IF event[1] = "DELETE" /\ event[2] = key THEN <<None>>
           ELSE IF event[1] = "SET" /\ event[2] = key THEN <<Some(event[3])>>
           ELSE txn_get_events(events, i - 1, key)

\* outer loop of txn_get: transactions j, j-1, .., 1
RECURSIVE txn_get_loop(_, _, _, _)
txn_get_loop(txns, j, key, current_value) ==
  IF j = 0 THEN Some(current_value)
  ELSE LET r == txn_get_events(get_events(txns[j]), Len(get_events(txns[j])), key)
       IN  IF r # <<>> THEN r[1]
           ELSE txn_get_loop(txns, j - 1, key, current_value)

\* IMDB.txn_get
txn_get(d, txns, key) == txn_get_loop(txns, Len(txns), key, get(d, key))

\* the body of txn_count with a DELETE rule that ignores the tracked keys
txn_count_event_anyDelete(acc, event, value) ==
  IF event[1] = "SET" /\ event[2] \in acc.keys /\ event[3] # value
    THEN [current_count |-> acc.current_count - 1, keys |-> acc.keys \ {event[2]}]
  ELSE IF event[1] = "SET" /\ event[2] \notin acc.keys /\ event[3] = value
    THEN [current_count |-> acc.current_count + 1, keys |-> acc.keys \cup {event[2]}]
  ELSE IF event[1] = "DELETE"
    THEN [current_count |-> acc.current_count - 1, keys |-> acc.keys \ {event[2]}]
  ELSE acc

\* body of the inner loop of txn_count on the pair (current_count, keys)
txn_count_event(acc, event, value) ==
  IF event[1] = "SET" /\ event[2] \in acc.keys /\ event[3] # value
    THEN [current_count |-> acc.current_count - 1, keys |-> acc.keys \ {event[2]}]
  ELSE IF event[1] = "SET" /\ event[2] \notin acc.keys /\ event[3] = value
    THEN [current_count |-> acc.current_count + 1, keys |-> acc.keys \cup {event[2]}]
  ELSE IF event[1] = "DELETE" /\ event[2] \in acc.keys
    THEN [current_count |-> acc.current_count - 1, keys |-> acc.keys \ {event[2]}]
  ELSE acc

\* inner loop of txn_count: events i, i+1, .., Len(events)
RECURSIVE txn_count_events(_, _, _, _)
txn_count_events(acc, events, i, value) ==
  IF i > Len(events) THEN acc
  ELSE txn_count_events(txn_count_event(acc, events[i], value), events, i + 1, value)

\* the outer loop of txn_count reading the latest transaction only
txn_count_loop_latestOnly(acc, txns, j, value) ==
  IF txns = <<>> THEN acc
  ELSE txn_count_events(acc, get_events(txns[Len(txns)]), 1, value)

\* outer loop of txn_count: transactions j, j+1, .., Len(txns)
RECURSIVE txn_count_loop(_, _, _, _)
txn_count_loop(acc, txns, j, value) ==
  IF j > Len(txns) THEN acc
  ELSE txn_count_loop(txn_count_events(acc, get_events(txns[j]), 1, value),
                      txns, j + 1, value)

\* txn_count that starts from zero instead of the committed count
txn_count_ignoresStore(c, txns, value) ==
  txn_count_loop([current_count |-> 0, keys |-> {}], txns, 1, value).current_count

\* IMDB.txn_count
txn_count(c, txns, value) ==
  txn_count_loop([current_count |-> count(c, value), keys |-> {}],
                 txns, 1, value).current_count

\* body of the inner loop of apply_transactions
apply_event(d, event) ==
  IF event[1] = "SET" THEN Put(d, event[2], event[3])
  ELSE IF event[1] = "DELETE"
    THEN (IF event[2] \in DOMAIN d THEN Del(d, event[2]) ELSE d)
  ELSE d

RECURSIVE apply_events(_, _, _)
apply_events(d, events, i) ==
  IF i > Len(events) THEN d
  ELSE apply_events(apply_event(d, events[i]), events, i + 1)

\* the outer loop of apply_transactions walking the stack innermost first
RECURSIVE apply_loop_innermostFirst(_, _, _)
apply_loop_innermostFirst(d, txns, j) ==
  IF j > Len(txns) THEN d
  ELSE apply_events(apply_loop_innermostFirst(d, txns, j + 1), get_events(txns[j]), 1)

RECURSIVE apply_loop(_, _, _)
apply_loop(d, txns, j) ==
  IF j > Len(txns) THEN d
  ELSE apply_loop(apply_events(d, get_events(txns[j]), 1), txns, j + 1)

\* apply_transactions that flattens the latest transaction only
apply_transactions_latestOnly(d, txns) ==
  IF txns = <<>> THEN d ELSE apply_events(d, get_events(txns[Len(txns)]), 1)

\* IMDB.apply_transactions: writes db only, counts is not touched
apply_transactions(d, txns) == apply_loop(d, txns, 1)

\* ------------------------------------------------------ what GET prints
\* the GET branch of transition
get_output(d, txns, key) ==
  IF txns # <<>>
    THEN LET found_value == txn_get(d, txns, key)
         IN  IF Truthy(found_value) THEN found_value[1] ELSE "NULL"
    ELSE get(d, key)

\* the COUNT branch of transition
count_output(c, txns, value) ==
  IF txns # <<>> THEN txn_count(c, txns, value) ELSE count(c, value)

\* ----------------------------------------------------------- the state
\* open logs plus the events they hold
RECURSIVE StackSize(_, _)
StackSize(txns, j) ==
  IF j = 0 THEN 0 ELSE 1 + Len(get_events(txns[j])) + StackSize(txns, j - 1)

\* number of keys of d holding v
Holders(d, v) == Cardinality({k \in DOMAIN d : d[k] = v})

Abs(n) == IF n < 0 THEN 0 - n ELSE n

\* by how much the index c disagrees with the entries d, over all values
RECURSIVE Drift(_, _, _)
Drift(d, c, vs) ==
  IF vs = {} THEN 0
  ELSE LET v == CHOOSE x \in vs : TRUE
       IN  Abs(count(c, v) - Holders(d, v)) + Drift(d, c, vs \ {v})

\* the store and the stack, as BEGIN found them
Snapshot == [db |-> db, counts |-> counts, transactions |-> transactions]

\* the loop of run() reads another command
Running == state # "END" /\ exc = ""

InBounds(d, c) == Drift(d, c, Values) <= MaxDrift

Init ==
  /\ state = "None"
  /\ db = EmptyDict
  /\ transactions = <<>>
  /\ counts = EmptyDict
  /\ command = <<>>
  /\ out = Silent
  /\ exc = ""
  /\ saved = <<>>

\* "END"
TransitionEND ==
  /\ Running
  /\ command' = <<"END">>
  /\ state' = "END"
  /\ out' = PrintedBye
  /\ UNCHANGED <<db, transactions, counts, exc, saved>>

\* GET whose scan reverses self.transactions in place instead of copying
TransitionGET_reversesInPlace(key) ==
  /\ Running
  /\ command' = <<"GET", key>>
  /\ out' = PrintedValue(get_output(db, transactions, key))
  /\ transactions' = [j \in 1..Len(transactions) |->
                        transactions[Len(transactions) + 1 - j]]
  /\ UNCHANGED <<state, db, counts, exc, saved>>

\* "GET <key>"
TransitionGET(key) ==
  /\ Running
  /\ command' = <<"GET", key>>
  /\ out' = PrintedValue(get_output(db, transactions, key))
  /\ UNCHANGED <<state, db, transactions, counts, exc, saved>>

\* "SET <key> <value>"
TransitionSET(key, value) ==
  /\ Running
  /\ command' = <<"SET", key, value>>
  /\ IF transactions # <<>>
       THEN /\ StackSize(transactions, Len(transactions)) < MaxStack
            /\ transactions' = add_to_latest(transactions, <<"SET", key, value>>)
            /\ out' = Silent
            /\ UNCHANGED <<db, counts, exc>>
       ELSE LET r == set(db, counts, key, value)
            IN  /\ InBounds(r.db, r.counts)
                /\ db' = r.db
                /\ counts' = r.counts
                /\ exc' = r.raised
                /\ out' = IF r.raised # "" THEN PrintedBye ELSE Silent
                /\ UNCHANGED transactions
  /\ UNCHANGED <<state, saved>>

\* "DELETE <key>"
TransitionDELETE(key) ==
  /\ Running
  /\ command' = <<"DELETE", key>>
  /\ IF transactions # <<>>
       THEN /\ StackSize(transactions, Len(transactions)) < MaxStack
            /\ transactions' = add_to_latest(transactions, <<"DELETE", key>>)
            /\ UNCHANGED <<db, counts, exc>>
       ELSE LET r == delete(db, counts, key)
            IN  /\ InBounds(r.db, r.counts)
                /\ db' = r.db
                /\ counts' = r.counts
                /\ exc' = r.raised
                /\ UNCHANGED transactions
  /\ out' = Silent
  /\ UNCHANGED <<state, saved>>

\* "COUNT <value>"
TransitionCOUNT(value) ==
  /\ Running
  /\ command' = <<"COUNT", value>>
  /\ out' = PrintedCount(count_output(counts, transactions, value))
  /\ UNCHANGED <<state, db, transactions, counts, exc, saved>>

\* "BEGIN"
TransitionBEGIN ==
  /\ Running
  /\ StackSize(transactions, Len(transactions)) < MaxStack
  /\ command' = <<"BEGIN">>
  /\ transactions' = Append(transactions, Transaction)
  /\ saved' = Append(saved, Snapshot)
  /\ out' = Silent
  /\ UNCHANGED <<state, db, counts, exc>>

\* a pop that tolerates the empty list instead of raising
pop_lenient(txns) ==
  [list |-> SubSeq(txns, 1, Len(txns) - 1), raised |-> ""]

\* list.pop() of the ROLLBACK branch: IndexError on an empty list
pop(txns) ==
  IF txns = <<>>
    THEN [list |-> txns, raised |-> "IndexError"]
    ELSE [list |-> SubSeq(txns, 1, Len(txns) - 1), raised |-> ""]

\* "ROLLBACK": the IndexError is caught and reported
TransitionROLLBACK ==
  /\ Running
  /\ command' = <<"ROLLBACK">>
  /\ LET r == pop(transactions)
     IN  /\ transactions' = r.list
         /\ out' = IF r.raised = "IndexError" THEN PrintedError(NotFound) ELSE Silent
  /\ saved' = IF saved = <<>> THEN saved ELSE SubSeq(saved, 1, Len(saved) - 1)
  /\ UNCHANGED <<state, db, counts, exc>>

\* COMMIT that refuses, like ROLLBACK, when no transaction is open
TransitionCOMMIT_requiresOpen ==
  /\ Running
  /\ command' = <<"COMMIT">>
  /\ LET applied == apply_transactions(db, transactions)
     IN  InBounds(applied, counts) /\ db' = applied
  /\ transactions' = <<>>
  /\ saved' = <<>>
  /\ out' = IF transactions = <<>> THEN PrintedError(NotFound) ELSE Silent
  /\ UNCHANGED <<state, counts, exc>>

\* COMMIT that rebuilds the index from the entries it has written
TransitionCOMMIT_reindexes ==
  /\ Running
  /\ command' = <<"COMMIT">>
  /\ LET applied == apply_transactions(db, transactions)
     IN  /\ InBounds(applied, counts)
         /\ db' = applied
         /\ counts' = [v \in {applied[k] : k \in DOMAIN applied} |-> Holders(applied, v)]
  /\ transactions' = <<>>
  /\ saved' = <<>>
  /\ out' = Silent
  /\ UNCHANGED <<state, exc>>

\* "COMMIT"
TransitionCOMMIT ==
  /\ Running
  /\ command' = <<"COMMIT">>
  /\ LET applied == apply_transactions(db, transactions)
     IN  InBounds(applied, counts) /\ db' = applied
  /\ transactions' = <<>>
  /\ saved' = <<>>
  /\ out' = Silent
  /\ UNCHANGED <<state, counts, exc>>

\* IMDB.run: one iteration of the loop
Next ==
  \/ TransitionEND
  \/ \E key \in Keys : TransitionGET(key)
  \/ \E key \in Keys, value \in Values : TransitionSET(key, value)
  \/ \E key \in Keys : TransitionDELETE(key)
  \/ \E value \in Values : TransitionCOUNT(value)
  \/ TransitionBEGIN
  \/ TransitionROLLBACK
  \/ TransitionCOMMIT

Spec == Init /\ [][Next]_vars

\* run() when BEGIN is never typed
NextDirect ==
  \/ TransitionEND
  \/ \E key \in Keys : TransitionGET(key)
  \/ \E key \in Keys, value \in Values : TransitionSET(key, value)
  \/ \E key \in Keys : TransitionDELETE(key)
  \/ \E value \in Values : TransitionCOUNT(value)

SpecDirect == Init /\ [][NextDirect]_vars

TypeOK ==
  /\ state \in {"None", "END"}
  /\ DOMAIN db \subseteq Keys
  /\ DOMAIN counts \subseteq Values
  /\ InBounds(db, counts)
  /\ StackSize(transactions, Len(transactions)) <= MaxStack
  /\ Len(saved) = Len(transactions)
  /\ exc \in {"", "KeyError"}

\* run() when COMMIT is never typed: the store is written by set and delete only
NextNoCommit ==
  \/ TransitionEND
  \/ \E key \in Keys : TransitionGET(key)
  \/ \E key \in Keys, value \in Values : TransitionSET(key, value)
  \/ \E key \in Keys : TransitionDELETE(key)
  \/ \E value \in Values : TransitionCOUNT(value)
  \/ TransitionBEGIN
  \/ TransitionROLLBACK

SpecNoCommit == Init /\ [][NextNoCommit]_vars

\* ------------------------------------------------- reference definitions
\* the last command read by run() was `name`
Typed(name) == command # <<>> /\ command[1] = name

\* all pending events in chronological order: outermost log first,
\* append order within a log
RECURSIVE AllEvents(_, _)
AllEvents(txns, j) ==
  IF j > Len(txns) THEN <<>> ELSE txns[j] \o AllEvents(txns, j + 1)

Chronological == AllEvents(transactions, 1)

\* position of the chronologically latest event on key, 0 when there is none
LatestOn(events, key) ==
  LET touching == {i \in 1..Len(events) : events[i][2] = key}
  IN  IF touching = {} THEN 0
      ELSE CHOOSE i \in touching : \A m \in touching : m <= i

\* the value key would hold were every open transaction committed now
Effective(d, events, key) ==
  LET i == LatestOn(events, key)
  IN  IF i = 0 THEN dict_get(d, key)
      ELSE IF events[i][1] = "DELETE" THEN None
      ELSE Some(events[i][3])

\* the same commands typed with no transaction open
RECURSIVE ReplayDirect(_, _, _)
ReplayDirect(store, events, i) ==
  IF i > Len(events) \/ store.raised # "" THEN store
  ELSE ReplayDirect(IF events[i][1] = "SET"
                      THEN set(store.db, store.counts, events[i][2], events[i][3])
                      ELSE delete(store.db, store.counts, events[i][2]),
                    events, i + 1)

\* ------------------------------------------------------------------ C1
\* C1: in every reachable state the value-count index agrees with the
\* committed entries: for every value v, counts.get(v, 0) is the number of
\* keys k with db[k] = v.
C1_IndexAgreesWithEntries ==
  \A v \in Values : count(counts, v) = Holders(db, v)

\* ------------------------------------------------------------------ C2
\* C2: when no transaction has ever been opened, COUNT(v) is the number of
\* keys whose committed value is v, for every value v, and that is what the
\* COUNT command prints.
C2_DirectCountIsExact ==
  /\ \A v \in Values : count_output(counts, transactions, v) = Holders(db, v)
  /\ Typed("COUNT") => out = PrintedCount(Holders(db, command[2]))

\* two keys hold "5" after "NULL" was stored and then overwritten or deleted
C2_Witness ==
  /\ transactions = <<>>
  /\ Typed("COUNT") /\ command[2] = "5" /\ out = PrintedCount(2)
  /\ "NULL" \in DOMAIN counts /\ counts["NULL"] = 0

\* ------------------------------------------------------------------ C3
\* C3: COMMIT with transactions open leaves the store (entries and
\* value-count index) that typing the same SET/DELETE commands directly, in
\* chronological order, would have produced from the same starting store.
C3_CommitFlattening ==
  [][(TransitionCOMMIT /\ transactions # <<>>) =>
       LET direct == ReplayDirect([db |-> db, counts |-> counts, raised |-> ""],
                                  Chronological, 1)
       IN  db' = direct.db /\ counts' = direct.counts]_vars

\* ------------------------------------------------------------------ C4
\* C4: with a transaction open, COUNT(v) is the number of keys whose
\* effective value (latest pending event on the key, else the committed
\* value) is v.
C4_SpeculativeCountIsEffective ==
  transactions # <<>> =>
    \A v \in Values :
      count_output(counts, transactions, v)
        = Cardinality({k \in Keys : Effective(db, Chronological, k) = Some(v)})

\* ------------------------------------------------------------------ C5
\* C5: with a transaction open, GET(key) prints the result of the
\* chronologically latest pending event on key (NULL for a Delete, v for
\* Set{key, v}), and the committed value (NULL if absent) when no pending
\* event touches key.
C5_GetLatestEventWins ==
  (Typed("GET") /\ transactions # <<>>) =>
    LET e == Effective(db, Chronological, command[2])
    IN  out = PrintedValue(IF e = None THEN "NULL" ELSE e[1])

\* GET of a key the outer transaction set and the inner one changed again
C5_Witness ==
  /\ Typed("GET") /\ Len(transactions) = 2
  /\ \E i \in 1..Len(transactions[1]) :
       transactions[1][i][1] = "SET" /\ transactions[1][i][2] = command[2]
         /\ out # PrintedValue(transactions[1][i][3])
  /\ \E i \in 1..Len(transactions[2]) : transactions[2][i][2] = command[2]

\* ------------------------------------------------------------------ C6
\* C6: ROLLBACK with a transaction open restores what the matching BEGIN
\* found: the committed entries, the value-count index and every outer
\* log; every GET and COUNT then answers as it did before that BEGIN.
C6_RollbackRoundTrip ==
  [][(Typed("ROLLBACK")' /\ transactions # <<>>) =>
       LET before == saved[Len(saved)]
       IN  /\ db' = before.db
           /\ counts' = before.counts
           /\ transactions' = before.transactions
           /\ \A k \in Keys : get_output(db', transactions', k)
                = get_output(before.db, before.transactions, k)
           /\ \A v \in Values : count_output(counts', transactions', v)
                = count_output(before.counts, before.transactions, v)]_vars

\* an inner transaction was rolled back under an outer one holding events
C6_Witness ==
  /\ Typed("ROLLBACK") /\ out = Silent
  /\ Len(transactions) = 1 /\ Len(transactions[1]) = 1
  /\ db # EmptyDict /\ counts # EmptyDict

\* ------------------------------------------------------------------ C7
\* C7: no command raises an unhandled exception; run() keeps reading
\* commands until END.
C7_NoUnhandledException == exc = ""

\* ------------------------------------------------------------------ C8
\* C8: every entry of the value-count index is >= 0 and COUNT(v) >= 0 for
\* every value v, with or without an open transaction.
C8_CountNeverNegative ==
  /\ \A v \in DOMAIN counts : counts[v] >= 0
  /\ \A v \in Values : count_output(counts, transactions, v) >= 0
  /\ Typed("COUNT") => out.num >= 0

\* ------------------------------------------------------------------ C9
\* resolveCount as documented: start from the committed count and walk the
\* pending events in chronological order with the tracked key set.
RECURSIVE resolveCountWalk(_, _, _, _, _)
resolveCountWalk(runningCount, tracked, events, i, value) ==
  IF i > Len(events) THEN runningCount
  ELSE LET e == events[i]
           k == e[2]
           leaves == \/ e[1] = "DELETE" /\ k \in tracked
                     \/ e[1] = "SET" /\ k \in tracked /\ e[3] # value
           enters == e[1] = "SET" /\ k \notin tracked /\ e[3] = value
       IN  resolveCountWalk(
             runningCount + (IF enters THEN 1 ELSE 0) - (IF leaves THEN 1 ELSE 0),
             IF enters THEN tracked \cup {k}
             ELSE IF leaves THEN tracked \ {k} ELSE tracked,
             events, i + 1, value)

resolveCount(stack, storeCounts, value) ==
  resolveCountWalk(count(storeCounts, value), {}, AllEvents(stack, 1), 1, value)

C10_RollbackWithoutTransaction ==
  [][Typed("ROLLBACK")' =>
       IF transactions = <<>>
         THEN /\ out' = PrintedError(NotFound)
              /\ db' = db /\ counts' = counts /\ transactions' = <<>>
              /\ exc' = "" /\ state' = state
         ELSE out' # PrintedError(NotFound) /\ exc' = ""]_vars

\* the report was printed over a store that holds data
C10_Witness ==
  /\ Typed("ROLLBACK") /\ out = PrintedError(NotFound)
  /\ transactions = <<>> /\ db # EmptyDict

\* ----------------------------------------------------------------- C11
\* SET or DELETE with a transaction open: one event more at the end of the
\* innermost log, nothing else written
AppendedOnly(event) ==
  /\ Len(transactions') = Len(transactions)
  /\ \A j \in 1..(Len(transactions) - 1) : transactions'[j] = transactions[j]
  /\ LET old == transactions[Len(transactions)]
         new == transactions'[Len(transactions)]
     IN  /\ Len(new) = Len(old) + 1
         /\ \A i \in 1..Len(old) : new[i] = old[i]
         /\ new[Len(new)] = event
  /\ db' = db /\ counts' = counts /\ state' = state /\ exc' = exc

C11_InTransaction ==
  /\ \A key \in Keys, value \in Values :
       (TransitionSET(key, value) /\ transactions # <<>>)
         => AppendedOnly(<<"SET", key, value>>)
  /\ \A key \in Keys :
       (TransitionDELETE(key) /\ transactions # <<>>)
         => AppendedOnly(<<"DELETE", key>>)

C11_Direct ==
  /\ \A key \in Keys, value \in Values :
       (TransitionSET(key, value) /\ transactions = <<>>)
         => transactions' = <<>> /\ dict_get(db', key) = Some(value)
  /\ \A key \in Keys :
       (TransitionDELETE(key) /\ transactions = <<>>)
         => transactions' = <<>> /\ key \notin DOMAIN db'

\* C11: a SET or DELETE typed with a transaction open appends exactly one
\* event to the innermost log and changes nothing else; typed with no
\* transaction open it is applied to the store at once (the key then holds
\* the value, or is gone) and the stack stays empty.
C11_WriteFrame == [][C11_InTransaction /\ C11_Direct]_vars

\* the first half of C11 alone
C11_AppendFrame == [][C11_InTransaction]_vars

\* ----------------------------------------------------------------- C12
\* C12: the stack depth starts at 0; BEGIN adds exactly one level;
\* ROLLBACK at depth > 0 removes exactly one; COMMIT at depth n >= 1
\* empties the stack in one step and the entries then hold the effect of
\* the logs of all n levels, so that a ROLLBACK typed right after a COMMIT
\* reports TRANSACTION NOT FOUND; GET, SET, DELETE and COUNT keep the depth.
C12_DepthStateMachine ==
  [][/\ command = <<>> => Len(transactions) = 0
     /\ Typed("BEGIN")'
          => Len(transactions') = Len(transactions) + 1
     /\ (Typed("ROLLBACK")' /\ transactions # <<>>)
          => Len(transactions') = Len(transactions) - 1
     /\ (Typed("COMMIT")' /\ transactions # <<>>)
          => /\ Len(transactions') = 0
             /\ \A k \in Keys : dict_get(db', k) = Effective(db, Chronological, k)
     /\ (Typed("ROLLBACK")' /\ Typed("COMMIT"))
          => out' = PrintedError(NotFound)
     /\ (Typed("GET")' \/ Typed("SET")' \/ Typed("DELETE")' \/ Typed("COUNT")')
          => Len(transactions') = Len(transactions)]_vars

\* ROLLBACK was refused over entries that only a COMMIT can have written
C12_Witness ==
  /\ Typed("ROLLBACK") /\ out = PrintedError(NotFound)
  /\ Len(transactions) = 0
  /\ db # EmptyDict /\ counts = EmptyDict

\* ----------------------------------------------------------------- C13
\* C13: GET prints NULL exactly when the key has no effective value: it is
\* absent from the committed entries with no pending Set, or its latest
\* pending event is a Delete.  No stored value prints as NULL.
C13_NullOnlyWhenAbsent ==
  Typed("GET") =>
    (out = PrintedValue("NULL") <=> Effective(db, Chronological, command[2]) = None)

\* ----------------------------------------------------------------- C14
\* C14: GET and COUNT, with or without open transactions, change neither
\* the committed entries, nor the value-count index, nor any log of the
\* stack.
C14_ReadsArePure ==
  [][(Typed("GET")' \/ Typed("COUNT")')
       => /\ db' = db
          /\ counts' = counts
          /\ transactions' = transactions
          /\ state' = state /\ exc' = exc]_vars

\* a read answered over committed data and two pending events
C14_Witness ==
  /\ Typed("GET") \/ Typed("COUNT")
  /\ Len(transactions) = 2 /\ Len(Chronological) = 2
  /\ transactions[1] # transactions[2]
  /\ db # EmptyDict /\ counts # EmptyDict

\* ----------------------------------------------------------------- C15
\* C15: COMMIT typed with no transaction open reports nothing, raises
\* nothing and leaves entries, index and the empty stack unchanged.
C15_CommitWithoutTransaction ==
  [][(Typed("COMMIT")' /\ transactions = <<>>)
       => /\ out' = Silent
          /\ exc' = "" /\ state' = state
          /\ db' = db /\ counts' = counts /\ transactions' = <<>>]_vars

\* a silent COMMIT over a store written by direct commands only
C15_Witness ==
  /\ Typed("COMMIT") /\ out = Silent /\ exc = ""
  /\ transactions = <<>>
  /\ db # EmptyDict
  /\ \A v \in Values : v \in DOMAIN counts /\ counts[v] = Holders(db, v)

\* ----------------------------------------------------------------- C16
\* The dispatcher of transition on whole command lines.  A line is the
\* sequence of its whitespace-separated tokens; its keyword is compared
\* character by character, as str.upper, == and str.startswith do.

\* the characters of a keyword as typed
Spell(word) ==
  CASE word = "END"      -> <<"E", "N", "D">>
    [] word = "GET"      -> <<"G", "E", "T">>
    [] word = "SET"      -> <<"S", "E", "T">>
    [] word = "DELETE"   -> <<"D", "E", "L", "E", "T", "E">>
    [] word = "COUNT"    -> <<"C", "O", "U", "N", "T">>
    [] word = "BEGIN"    -> <<"B", "E", "G", "I", "N">>
    [] word = "ROLLBACK" -> <<"R", "O", "L", "L", "B", "A", "C", "K">>
    [] word = "COMMIT"   -> <<"C", "O", "M", "M", "I", "T">>
    [] word = "ENDX"     -> <<"E", "N", "D", "X">>
    [] word = "GETS"     -> <<"G", "E", "T", "S">>
    [] word = "SETX"     -> <<"S", "E", "T", "X">>
    [] word = "DELETED"  -> <<"D", "E", "L", "E", "T", "E", "D">>
    [] word = "COUNTER"  -> <<"C", "O", "U", "N", "T", "E", "R">>
    [] word = "BEGINX"   -> <<"B", "E", "G", "I", "N", "X">>
    [] word = "FOO"      -> <<"F", "O", "O">>
    [] word = "get"      -> <<"g", "e", "t">>

\* str.upper on the letters that occur
upper(chars) ==
  [i \in 1..Len(chars) |->
     CASE chars[i] = "e" -> "E"
       [] chars[i] = "t" -> "T"
       [] chars[i] = "g" -> "G"
       [] OTHER -> chars[i]]

\* str.startswith
startswith(chars, prefix) ==
  /\ Len(chars) >= Len(prefix)
  /\ SubSeq(chars, 1, Len(prefix)) = prefix

\* the lines typed at the prompt: the eight commands, keywords that extend
\* one of them, a lower-case spelling, a foreign word and wrong arities
Lines ==
  {<<w>> : w \in {"END", "BEGIN", "ROLLBACK", "COMMIT",
                  "ENDX", "BEGINX", "FOO", "GET"}}
    \cup {<<w, k>> : w \in {"GET", "GETS", "get", "DELETE", "DELETED", "SET"},
                     k \in Keys}
    \cup {<<w, v>> : w \in {"COUNT", "COUNTER"}, v \in Values}
    \cup {<<w, k, v>> : w \in {"SET", "SETX"}, k \in Keys, v \in Values}

Invalid(name) == PrintedError("Invalid " \o name \o " command")
Unknown == PrintedError("Unknown command")

\* transition(command), branch by branch
TransitionLine(line) ==
  LET kw == upper(Spell(line[1]))
      parts == Len(line)
  IN
  /\ Running
  /\ command' = line
  /\ IF parts = 1 /\ kw = Spell("END")
       THEN /\ state' = "END"
            /\ out' = PrintedBye
            /\ UNCHANGED <<db, transactions, counts, exc, saved>>
     ELSE IF startswith(kw, Spell("GET"))
       THEN /\ out' = IF parts # 2
                        THEN Invalid("GET")
                        ELSE PrintedValue(get_output(db, transactions, line[2]))
            /\ UNCHANGED <<state, db, transactions, counts, exc, saved>>
     ELSE IF startswith(kw, Spell("SET"))
       THEN IF parts < 3
              THEN /\ out' = Invalid("SET")
                   /\ UNCHANGED <<state, db, transactions, counts, exc, saved>>
            ELSE IF transactions # <<>>
              THEN /\ StackSize(transactions, Len(transactions)) < MaxStack
                   /\ transactions' =
                        add_to_latest(transactions, <<"SET", line[2], line[3]>>)
                   /\ out' = Silent
                   /\ UNCHANGED <<state, db, counts, exc, saved>>
            ELSE LET r == set(db, counts, line[2], line[3])
                 IN  /\ InBounds(r.db, r.counts)
                     /\ db' = r.db
                     /\ counts' = r.counts
                     /\ exc' = r.raised
                     /\ out' = IF r.raised # "" THEN PrintedBye ELSE Silent
                     /\ UNCHANGED <<state, transactions, saved>>
     ELSE IF startswith(kw, Spell("DELETE"))
       THEN IF parts # 2
              THEN /\ out' = Invalid("DELETE")
                   /\ UNCHANGED <<state, db, transactions, counts, exc, saved>>
            ELSE IF transactions # <<>>
              THEN /\ StackSize(transactions, Len(transactions)) < MaxStack
                   /\ transactions' =
                        add_to_latest(transactions, <<"DELETE", line[2]>>)
                   /\ out' = Silent
                   /\ UNCHANGED <<state, db, counts, exc, saved>>
            ELSE LET r == delete(db, counts, line[2])
                 IN  /\ InBounds(r.db, r.counts)
                     /\ db' = r.db
                     /\ counts' = r.counts
                     /\ exc' = r.raised
                     /\ out' = Silent
                     /\ UNCHANGED <<state, transactions, saved>>
     ELSE IF startswith(kw, Spell("COUNT"))
       THEN /\ out' = IF parts # 2
                        THEN Invalid("COUNT")
                        ELSE PrintedCount(count_output(counts, transactions, line[2]))
            /\ UNCHANGED <<state, db, transactions, counts, exc, saved>>
     ELSE IF parts = 1 /\ kw = Spell("BEGIN")
       THEN /\ StackSize(transactions, Len(transactions)) < MaxStack
            /\ transactions' = Append(transactions, Transaction)
            /\ saved' = Append(saved, Snapshot)
            /\ out' = Silent
            /\ UNCHANGED <<state, db, counts, exc>>
     ELSE IF parts = 1 /\ kw = Spell("ROLLBACK")
       THEN /\ LET r == pop(transactions)
               IN  /\ transactions' = r.list
                   /\ out' = IF r.raised = "IndexError"
                               THEN PrintedError(NotFound) ELSE Silent
            /\ saved' = IF saved = <<>> THEN saved
                        ELSE SubSeq(saved, 1, Len(saved) - 1)
            /\ UNCHANGED <<state, db, counts, exc>>
     ELSE IF parts = 1 /\ kw = Spell("COMMIT")
       THEN /\ LET applied == apply_transactions(db, transactions)
               IN  InBounds(applied, counts) /\ db' = applied
            /\ transactions' = <<>>
            /\ saved' = <<>>
            /\ out' = Silent
            /\ UNCHANGED <<state, counts, exc>>
     ELSE /\ out' = Unknown
          /\ UNCHANGED <<state, db, transactions, counts, exc, saved>>

\* IMDB.run fed with whole lines
NextDispatch == \E line \in Lines : TransitionLine(line)

SpecDispatch == Init /\ [][NextDispatch]_vars

\* the keywords of the command language
Recognized ==
  {Spell(w) : w \in {"GET", "SET", "DELETE", "COUNT",
                     "BEGIN", "ROLLBACK", "COMMIT", "END"}}

\* C16: a line whose upper-cased keyword is none of GET, SET, DELETE, COUNT,
\* BEGIN, ROLLBACK, COMMIT, END (SETX, DELETED, GETS, COUNTER included) is
\* reported as an unknown command and changes neither the entries, nor the
\* index, nor the stack, nor the END flag.
C16_UnknownKeywordIsInert ==
  [][\A line \in Lines :
       (TransitionLine(line) /\ upper(Spell(line[1])) \notin Recognized)
         => /\ out' = Unknown
            /\ db' = db /\ counts' = counts
            /\ transactions' = transactions /\ state' = state]_vars

\* ----------------------------------------------------------------- C17
\* every event applied to the entries in the order given: a Set writes the
\* key, a Delete removes it if present
RECURSIVE FoldEntries(_, _, _)
FoldEntries(d, events, i) ==
  IF i > Len(events) THEN d
  ELSE LET e == events[i]
           next == IF e[1] = "SET"
                     THEN [x \in (DOMAIN d) \cup {e[2]} |->
                             IF x = e[2] THEN e[3] ELSE d[x]]
                     ELSE [x \in (DOMAIN d) \ {e[2]} |-> d[x]]
       IN  FoldEntries(next, events, i + 1)

\* C17: restricted to the entries, COMMIT at any depth leaves the mapping
\* obtained by applying every pending event chronologically to the
\* pre-commit entries; hence GET of any key prints after the COMMIT what
\* it printed before it.
C17_CommitAppliesChronologically ==
  [][Typed("COMMIT")'
       => /\ db' = FoldEntries(db, Chronological, 1)
          /\ \A k \in Keys :
               get_output(db', transactions', k) = get_output(db, transactions, k)]_vars

\* a COMMIT whose pending Delete removed the only entry
C17_Witness ==
  /\ Typed("COMMIT") /\ transactions = <<>>
  /\ db = EmptyDict
  /\ \E v \in Values : count(counts, v) = 1

\* ----------------------------------------------------------------- C18
\* keys whose chronologically latest pending event is Set{k, v}
LatestIsSet(events, v) ==
  {k \in Keys : LET i == LatestOn(events, k)
                IN  i # 0 /\ events[i] = <<"SET", k, v>>}

Touched(events) == {events[i][2] : i \in 1..Len(events)}

\* the index agrees with the entries and no touched key holds v
Exactness(v) ==
  /\ \A w \in Values : count(counts, w) = Holders(db, w)
  /\ \A k \in Touched(Chronological) : dict_get(db, k) # Some(v)

\* keys that have an effective value and for which GET prints v
GetReturns(v) ==
  {k \in Keys : /\ Effective(db, Chronological, k) # None
                /\ get_output(db, transactions, k) = v}

\* C19: with a transaction open, when the index agrees with the entries
\* and no key touched by a pending event has committed value v, COUNT(v)
\* is the number of keys whose effective value, as GET returns it, is v.
C19_SpeculativeCountExactWhenDisjoint ==
  (Typed("COUNT") /\ transactions # <<>> /\ Exactness(command[2])) =>
    out = PrintedCount(Cardinality(GetReturns(command[2])))

\* a COUNT adding a committed holder and a pending one
C19_Witness ==
  /\ Typed("COUNT") /\ transactions # <<>>
  /\ Exactness(command[2])
  /\ Chronological # <<>> /\ db # EmptyDict
  /\ out = PrintedCount(2)

\* ----------------------------------------------------------------- C20
\* C20: COMMIT never modifies the value-count index: for every value the
\* committed count read after the COMMIT, no transaction being open, is the
\* one the store held before it, whatever the committed logs contain.
C20_CommitLeavesIndex ==
  [][Typed("COMMIT")'
       => /\ counts' = counts
          /\ transactions' = <<>>
          /\ \A v \in Values :
               count_output(counts', transactions', v) = count(counts, v)]_vars

\* a COMMIT that wrote an entry the index does not count
C20_Witness ==
  /\ Typed("COMMIT") /\ transactions = <<>>
  /\ db # EmptyDict
  /\ \A v \in Values : count(counts, v) = 0

=============================================================================
